---- MODULE Spec2Model ----
(***************************************************************************)
(* Subscription billing reconciliation and cooling-off refund logic of the *)
(* llm-generator backend: the Stripe webhook endpoint with its event log,  *)
(* the per-event handlers, the subscription service, the scheduled jobs    *)
(* and the refund service, as a state machine over the subscriptions       *)
(* table, the stripe_events table and the billing provider's state.        *)
(***************************************************************************)
EXTENDS Integers, Sequences, FiniteSets, TLC

VARIABLES
    now,        \* datetime.utcnow(), in ticks
    subs,       \* subscriptions table: user_id -> row (user_id is unique)
    log,        \* stripe_events table: set of rows
    dlv,        \* webhook requests in flight: delivery slot -> position
    answer,     \* the webhook request answered last: its event and the body
    applied,    \* history: event id -> times its handler committed to a row
    stale,      \* history: event ids applied after a later one of their type
    req,        \* cancel-subscription requests: slot -> position
    gens,       \* user_id -> completed Generation rows since created_at
    inflight,   \* Generation rows pending or processing: <<user, website>>
    provider,   \* billing provider: its subscriptions, the refunds it issued
    hist        \* history: per user, when the first payment failure since
                \* the last success and the last checkout were applied,
                \* whether a dispute was, and how many completed Generation
                \* rows the user deleted

vars ==
    <<now, subs, log, dlv, answer, applied, stale, req, gens, inflight,
      provider, hist>>

Null == "null"

\* ------------------------------------------------------------------------
\* Bounds of the model
\* ------------------------------------------------------------------------
Users == {"u1", "u2"}
\* the time of something that has not happened
Never == -1
NumDeliveries == 2
Deliveries == 1..NumDeliveries
NumRequests == 2
Requests == 1..NumRequests
MaxRefunds == 2
\* datetime resolution of the model: ticks in a day
TicksPerDay == 2
\* the days the clock runs for
MaxClockDays == 4

\* ------------------------------------------------------------------------
\* Plan catalog (core/subscription_plans.py) and settings (core/config.py)
\* ------------------------------------------------------------------------
PLAN_FEATURES ==
    [free     |-> [generations_limit |-> 1,  max_websites |-> 1],
     starter  |-> [generations_limit |-> 3,  max_websites |-> 2],
     standard |-> [generations_limit |-> 10, max_websites |-> 5],
     pro      |-> [generations_limit |-> 25, max_websites |-> 999]]

get_plan_limits(plan_type) ==
    IF plan_type \in DOMAIN PLAN_FEATURES
    THEN PLAN_FEATURES[plan_type]
    ELSE PLAN_FEATURES["free"]

PaidPlans == {"starter", "standard", "pro"}

STRIPE_PRICE_STARTER_MONTHLY == "price_starter_monthly"
STRIPE_PRICE_STARTER_YEARLY == "price_starter_yearly"
STRIPE_PRICE_STANDARD == "price_standard"
STRIPE_PRICE_STANDARD_MONTHLY == "price_standard_monthly"
STRIPE_PRICE_STANDARD_YEARLY == "price_standard_yearly"
STRIPE_PRICE_PRO == "price_pro"
STRIPE_PRICE_PRO_MONTHLY == "price_pro_monthly"
STRIPE_PRICE_PRO_YEARLY == "price_pro_yearly"

\* the statuses the billing provider reports for a subscription
ProviderStatuses ==
    {"incomplete", "incomplete_expired", "trialing", "active",
     "past_due", "canceled", "unpaid", "paused"}

\* the customer the provider holds for a user (metadata.user_id)
CustomerOf(u) == IF u = "u1" THEN "cus_1" ELSE "cus_2"
Customers == {CustomerOf(u) : u \in Users}
MetadataUser(c) == CHOOSE u \in Users : CustomerOf(u) = c
SubRefs == {"sub_1", "sub_2"}

\* ------------------------------------------------------------------------
\* subscriptions table
\* ------------------------------------------------------------------------
Put(s, u, row) == [x \in (DOMAIN s) \cup {u} |-> IF x = u THEN row ELSE s[x]]

\* unique=True on stripe_customer_id and stripe_subscription_id
UniqueOK(s) ==
    \A u, v \in DOMAIN s :
        u # v =>
            /\ (s[u].stripe_customer_id # Null
                    => s[u].stripe_customer_id # s[v].stripe_customer_id)
            /\ (s[u].stripe_subscription_id # Null
                    => s[u].stripe_subscription_id # s[v].stripe_subscription_id)

ByCustomer(s, customer_id) ==
    {u \in DOMAIN s : s[u].stripe_customer_id = customer_id}
BySubscription(s, subscription_id) ==
    {u \in DOMAIN s : s[u].stripe_subscription_id = subscription_id}

\* what a handler leaves behind: the table, how it ended, the error text
Skipped(s) == [subs |-> s, outcome |-> "skipped", err |-> Null]
Raised(s, e) == [subs |-> s, outcome |-> "raised", err |-> e]
\* db.commit(): a uniqueness violation raises and rolls the row back
Commit(s, s2) ==
    IF UniqueOK(s2)
    THEN [subs |-> s2, outcome |-> "applied", err |-> Null]
    ELSE Raised(s, "IntegrityError")

\* Column(onupdate=datetime.utcnow): an UPDATE that changes a row stamps it
Stamp(old, new, t) == IF new = old THEN old ELSE [new EXCEPT !.updated_at = t]

\* ------------------------------------------------------------------------
\* Event handlers (api/v1/webhooks.py).  Each yields the set of results the
\* code can produce: the choice of .first() among matching rows and the
\* outcome of the calls to the billing provider are not decided by the code.
\* An event's data carries: obj (data.object.id), customer, subscription,
\* status, price (of the first item), refunded, meta_user, meta_plan;
\* Null stands for a missing key.
\* ------------------------------------------------------------------------
\* stripe.Subscription.retrieve: the provider's record, or an error
Retrieve(pv, subscription_id) ==
    {"error"} \cup
    (IF subscription_id \in DOMAIN pv.subscriptions
     THEN {pv.subscriptions[subscription_id].status} ELSE {})

handle_checkout_session_completed(s, data, t, pv) ==
    LET customer_id == data.customer
        subscription_id == data.subscription
        user_id == data.meta_user
        plan_type == data.meta_plan
        limits == get_plan_limits(plan_type)
        created(st) ==
            [plan_type |-> plan_type,
             status |-> st,
             stripe_customer_id |-> customer_id,
             stripe_subscription_id |-> subscription_id,
             generations_used |-> 0,
             generations_limit |-> limits.generations_limit,
             websites_limit |-> limits.max_websites,
             created_at |-> t,
             updated_at |-> t]
        updated(st) ==
            [s[user_id] EXCEPT
                !.plan_type = plan_type,
                !.stripe_customer_id = customer_id,
                !.stripe_subscription_id = subscription_id,
                !.status = st,
                !.generations_limit = limits.generations_limit,
                !.websites_limit = limits.max_websites,
                !.updated_at = t]
    IN  IF Null \in {customer_id, subscription_id, user_id, plan_type}
        THEN {Skipped(s)}
        ELSE IF user_id \notin Users
        THEN {Skipped(s)}
        ELSE {IF st = "error"
              THEN Raised(s, "StripeError")
              ELSE Commit(s, Put(s, user_id,
                                 IF user_id \in DOMAIN s THEN updated(st)
                                 ELSE created(st))) :
                    st \in Retrieve(pv, subscription_id)}

\* a variant that starts the usage counter of the new tier at 0
UpdateSubscription_mut(row, data, t) ==
    LET new_plan ==
            IF data.price = STRIPE_PRICE_STANDARD THEN "standard"
            ELSE IF data.price = STRIPE_PRICE_PRO THEN "pro"
            ELSE row.plan_type
        limits == get_plan_limits(new_plan)
        r1 == [row EXCEPT
                !.status = IF data.status = Null THEN @ ELSE data.status,
                !.updated_at = t]
    IN  IF new_plan # row.plan_type
        THEN [r1 EXCEPT
                !.plan_type = new_plan,
                !.generations_limit = limits.generations_limit,
                !.websites_limit = limits.max_websites,
                !.generations_used = 0]
        ELSE r1

\* a variant that takes the new tier's limits and leaves the usage counter
UpdateSubscription_nocap(row, data, t) ==
    LET new_plan ==
            IF data.price = STRIPE_PRICE_STANDARD THEN "standard"
            ELSE IF data.price = STRIPE_PRICE_PRO THEN "pro"
            ELSE row.plan_type
        limits == get_plan_limits(new_plan)
        r1 == [row EXCEPT
                !.status = IF data.status = Null THEN @ ELSE data.status,
                !.updated_at = t]
    IN  IF new_plan # row.plan_type
        THEN [r1 EXCEPT
                !.plan_type = new_plan,
                !.generations_limit = limits.generations_limit,
                !.websites_limit = limits.max_websites]
        ELSE r1

\* lines 281-331: the update of a row that was found
UpdateSubscription(row, data, t) ==
    LET old_plan == row.plan_type
        new_plan ==
            IF data.price = Null THEN old_plan
            ELSE IF data.price = STRIPE_PRICE_STANDARD THEN "standard"
            ELSE IF data.price = STRIPE_PRICE_PRO THEN "pro"
            ELSE row.plan_type
        limits == get_plan_limits(new_plan)
        r1 == [row EXCEPT
                !.status = IF data.status = Null THEN @ ELSE data.status,
                !.updated_at = t]
    IN  IF new_plan # old_plan
        THEN [r1 EXCEPT
                !.plan_type = new_plan,
                !.generations_limit = limits.generations_limit,
                !.websites_limit = limits.max_websites,
                !.generations_used =
                    IF @ > limits.generations_limit
                    THEN limits.generations_limit ELSE @]
        ELSE r1

\* lines 231-275: no row for the subscription nor the customer
CreateFromCustomerMetadata(s, data, t) ==
    LET customer_id == data.customer
        plan_type ==
            IF data.price = STRIPE_PRICE_STANDARD THEN "standard"
            ELSE IF data.price = STRIPE_PRICE_PRO THEN "pro"
            ELSE "free"
        limits == get_plan_limits(plan_type)
        row == [plan_type |-> plan_type,
                status |-> IF data.status = Null THEN "active" ELSE data.status,
                stripe_customer_id |-> customer_id,
                stripe_subscription_id |-> data.obj,
                generations_used |-> 0,
                generations_limit |-> limits.generations_limit,
                websites_limit |-> limits.max_websites,
                created_at |-> t,
                updated_at |-> t]
    IN  \* Customer.retrieve raised, or no user_id in the metadata
        {Skipped(s)} \cup
        IF customer_id \in Customers /\ MetadataUser(customer_id) \notin DOMAIN s
        THEN {Commit(s, Put(s, MetadataUser(customer_id), row))}
        ELSE {}

handle_subscription_updated(s, data, t) ==
    LET subscription_id == data.obj
        customer_id == data.customer
        bySub == BySubscription(s, subscription_id)
        byCus == ByCustomer(s, customer_id)
    IN  IF subscription_id = Null THEN {Skipped(s)}
        ELSE IF bySub # {}
        THEN {Commit(s, Put(s, u, UpdateSubscription(s[u], data, t))) : u \in bySub}
        ELSE IF customer_id = Null THEN {Skipped(s)}
        ELSE IF byCus # {}
        THEN {Commit(s, Put(s, u,
                UpdateSubscription(
                    [s[u] EXCEPT !.stripe_subscription_id = subscription_id],
                    data, t))) : u \in byCus}
        ELSE CreateFromCustomerMetadata(s, data, t)

\* the downgrade of lines 358-366
DowngradeDeleted(row, t) ==
    [row EXCEPT
        !.plan_type = "free",
        !.status = "canceled",
        !.stripe_subscription_id = Null,
        !.generations_limit = get_plan_limits("free").generations_limit,
        !.websites_limit = get_plan_limits("free").max_websites,
        !.updated_at = t]

handle_subscription_deleted(s, data, t) ==
    LET subscription_id == data.obj
        found == BySubscription(s, subscription_id)
    IN  IF subscription_id = Null THEN {Skipped(s)}
        ELSE IF found = {} THEN {Skipped(s)}
        ELSE {Commit(s, Put(s, u, DowngradeDeleted(s[u], t))) : u \in found}

\* a variant that escalates a Subscription that is already past due
handle_payment_failed_mut(s, data, t) ==
    LET subscription_id == data.subscription
        found == BySubscription(s, subscription_id)
    IN  IF subscription_id = Null THEN {Skipped(s)}
        ELSE IF found = {} THEN {Skipped(s)}
        ELSE {Commit(s, Put(s, u,
                [s[u] EXCEPT !.status = IF @ = "past_due" THEN "unpaid"
                                        ELSE "past_due",
                             !.updated_at = t])) : u \in found}

handle_payment_failed(s, data, t) ==
    LET subscription_id == data.subscription
        found == BySubscription(s, subscription_id)
    IN  IF subscription_id = Null THEN {Skipped(s)}
        ELSE IF found = {} THEN {Skipped(s)}
        ELSE {Commit(s, Put(s, u, [s[u] EXCEPT !.status = "past_due",
                                                !.updated_at = t])) : u \in found}

handle_payment_succeeded(s, data, t) ==
    LET subscription_id == data.subscription
        found == BySubscription(s, subscription_id)
    IN  IF subscription_id = Null \/ found = {} THEN {Skipped(s)}
        ELSE {Commit(s, Put(s, u, [s[u] EXCEPT !.status = "active",
                                                !.updated_at = t])) : u \in found}

\* the downgrade of lines 459-463 and 491-495
RevokeAccess(row) ==
    [row EXCEPT
        !.status = "canceled",
        !.plan_type = "free",
        !.generations_limit = get_plan_limits("free").generations_limit,
        !.websites_limit = get_plan_limits("free").max_websites]

\* a variant that suspends the subscription as a failed payment does
handle_charge_disputed_mut(s, data, t) ==
    LET found == ByCustomer(s, data.customer)
    IN  IF found = {} THEN {Skipped(s)}
        ELSE {Commit(s, Put(s, u,
                Stamp(s[u], [RevokeAccess(s[u]) EXCEPT !.status = "past_due"],
                      t))) : u \in found}

\* filter(stripe_customer_id == customer_id) is IS NULL for a missing customer
handle_charge_disputed(s, data, t) ==
    LET found == ByCustomer(s, data.customer)
    IN  IF found = {} THEN {Skipped(s)}
        ELSE {Commit(s, Put(s, u, Stamp(s[u], RevokeAccess(s[u]), t))) : u \in found}

handle_charge_refunded(s, data, t) ==
    LET found == ByCustomer(s, data.customer)
    IN  IF found = {} THEN {Skipped(s)}
        ELSE {IF s[u].status = "active" /\ data.refunded
              THEN Commit(s, Put(s, u, Stamp(s[u], RevokeAccess(s[u]), t)))
              ELSE Skipped(s) : u \in found}

handle_payment_action_required(s, data, t) == {Skipped(s)}

handle_customer_deleted(s, data, t) ==
    LET found == ByCustomer(s, data.obj)
    IN  IF found = {} THEN {Skipped(s)}
        ELSE {Commit(s, Put(s, u,
                Stamp(s[u],
                      [RevokeAccess(s[u]) EXCEPT
                            !.stripe_customer_id = Null,
                            !.stripe_subscription_id = Null], t))) : u \in found}

EventTypes ==
    {"checkout.session.completed", "customer.subscription.created",
     "customer.subscription.updated", "customer.subscription.deleted",
     "invoice.payment_failed", "invoice.payment_succeeded",
     "invoice.payment_action_required", "charge.dispute.created",
     "charge.refunded", "customer.deleted", "customer.created"}

\* the dispatch of stripe_webhook, lines 592-623
Dispatch(event_type, s, data, t, pv) ==
    CASE event_type = "checkout.session.completed" ->
            handle_checkout_session_completed(s, data, t, pv)
      [] event_type = "customer.subscription.created" ->
            handle_subscription_updated(s, data, t)
      [] event_type = "customer.subscription.updated" ->
            handle_subscription_updated(s, data, t)
      [] event_type = "customer.subscription.deleted" ->
            handle_subscription_deleted(s, data, t)
      [] event_type = "invoice.payment_failed" ->
            handle_payment_failed(s, data, t)
      [] event_type = "invoice.payment_succeeded" ->
            handle_payment_succeeded(s, data, t)
      [] event_type = "invoice.payment_action_required" ->
            handle_payment_action_required(s, data, t)
      [] event_type = "charge.dispute.created" ->
            handle_charge_disputed(s, data, t)
      [] event_type = "charge.refunded" ->
            handle_charge_refunded(s, data, t)
      [] event_type = "customer.deleted" ->
            handle_customer_deleted(s, data, t)
      [] OTHER -> {Skipped(s)}

\* ------------------------------------------------------------------------
\* Webhook event log (api/v1/webhooks.py, models/stripe_event.py)
\* ------------------------------------------------------------------------
\* a variant that only counts the rows written as processed
is_event_processed_mut(lg, event_id) ==
    \E r \in lg : r.id = event_id /\ r.status = "processed"

is_event_processed(lg, event_id) == \E r \in lg : r.id = event_id

\* a variant that merges: the row of an id that has one is overwritten
mark_event_processed_merge(lg, event_id, event_type, event_created) ==
    {r \in lg : r.id # event_id}
        \cup {[id |-> event_id, type |-> event_type,
                created |-> event_created, status |-> "processed",
                error_message |-> Null]}

\* the insert fails on the primary key when the id has a row; the error is
\* caught and rolled back
mark_event_processed(lg, event_id, event_type, event_created) ==
    IF \E r \in lg : r.id = event_id
    THEN lg
    ELSE lg \cup {[id |-> event_id, type |-> event_type,
                   created |-> event_created, status |-> "processed",
                   error_message |-> Null]}

\* a variant that writes the row of a failed event as processed
mark_event_failed_mut(lg, event_id, event_type, event_created, error_message) ==
    IF \E r \in lg : r.id = event_id
    THEN lg
    ELSE lg \cup {[id |-> event_id, type |-> event_type,
                   created |-> event_created, status |-> "processed",
                   error_message |-> Null]}

mark_event_failed(lg, event_id, event_type, event_created, error_message) ==
    IF \E r \in lg : r.id = event_id
    THEN lg
    ELSE lg \cup {[id |-> event_id, type |-> event_type,
                   created |-> event_created, status |-> "failed",
                   error_message |-> error_message]}

\* ------------------------------------------------------------------------
\* The events the provider delivers
\* ------------------------------------------------------------------------
NoData ==
    [obj |-> Null, customer |-> Null, subscription |-> Null, status |-> Null,
     price |-> Null, refunded |-> FALSE, meta_user |-> Null, meta_plan |-> Null]

Events ==
    {[id |-> "evt_A", type |-> "customer.subscription.updated", created |-> 1,
      data |-> [NoData EXCEPT !.obj = "sub_1", !.customer = "cus_1",
                              !.status = "past_due", !.price = STRIPE_PRICE_PRO]],
     [id |-> "evt_B", type |-> "customer.subscription.updated", created |-> 2,
      data |-> [NoData EXCEPT !.obj = "sub_1", !.customer = "cus_1",
                              !.status = "active",
                              !.price = STRIPE_PRICE_STANDARD]],
     [id |-> "evt_C", type |-> "checkout.session.completed", created |-> 2,
      data |-> [NoData EXCEPT !.customer = "cus_2", !.subscription = "sub_2",
                              !.meta_user = "u2", !.meta_plan = "starter"]],
     [id |-> "evt_D", type |-> "customer.subscription.deleted", created |-> 1,
      data |-> [NoData EXCEPT !.obj = "sub_9", !.customer = "cus_9"]],
     [id |-> "evt_E", type |-> "customer.subscription.deleted", created |-> 0,
      data |-> [NoData EXCEPT !.obj = "sub_1", !.customer = "cus_1"]]}

EventIds == {e.id : e \in Events}

NoEvent == [id |-> Null, type |-> Null, created |-> 0, data |-> NoData]

\* ------------------------------------------------------------------------
\* The ordering guard
\* ------------------------------------------------------------------------
\* the customer an event is about
ConcernedCustomer(event_id) ==
    IF event_id \in EventIds
    THEN (CHOOSE e \in Events : e.id = event_id).data.customer
    ELSE Null

\* a variant whose ordering query looks only at events about the same customer
should_process_event_percustomer(lg, event_id, event_type, event_created) ==
    IF is_event_processed(lg, event_id)
    THEN [ok |-> FALSE, log |-> lg]
    ELSE IF \E r \in lg : /\ r.type = event_type
                          /\ r.created > event_created
                          /\ ConcernedCustomer(r.id) = ConcernedCustomer(event_id)
    THEN [ok |-> FALSE,
          log |-> mark_event_processed(lg, event_id, event_type, event_created)]
    ELSE [ok |-> TRUE, log |-> lg]

\* a variant that rejects a superseded event without recording it
should_process_event_mut(lg, event_id, event_type, event_created) ==
    IF is_event_processed(lg, event_id)
    THEN [ok |-> FALSE, log |-> lg]
    ELSE IF \E r \in lg : r.type = event_type /\ r.created > event_created
    THEN [ok |-> FALSE, log |-> lg]
    ELSE [ok |-> TRUE, log |-> lg]

should_process_event(lg, event_id, event_type, event_created) ==
    IF is_event_processed(lg, event_id)
    THEN [ok |-> FALSE, log |-> lg]
    ELSE IF \E r \in lg : r.type = event_type /\ r.created > event_created
    THEN [ok |-> FALSE,
          log |-> mark_event_processed(lg, event_id, event_type, event_created)]
    ELSE [ok |-> TRUE, log |-> lg]

\* history after a handler ran at time t on table s with result r
Record(h, event_type, data, s, r, t) ==
    LET hit(u, ref) == /\ r.outcome = "applied"
                       /\ u \in DOMAIN s
                       /\ s[u].stripe_subscription_id = ref
    IN  [failed_at |-> [u \in Users |->
            IF event_type = "invoice.payment_failed" /\ hit(u, data.subscription)
            THEN (IF h.failed_at[u] = Never THEN t ELSE h.failed_at[u])
            ELSE IF event_type = "invoice.payment_succeeded"
                    /\ hit(u, data.subscription)
            THEN Never
            ELSE h.failed_at[u]],
         paid_at |-> [u \in Users |->
            IF event_type = "checkout.session.completed"
                /\ r.outcome = "applied" /\ data.meta_user = u
            THEN t ELSE h.paid_at[u]],
         disputed |-> [u \in Users |->
            \/ h.disputed[u]
            \/ /\ event_type = "charge.dispute.created"
               /\ r.outcome = "applied"
               /\ u \in ByCustomer(s, data.customer)],
         deleted |-> h.deleted]

\* ------------------------------------------------------------------------
\* stripe_webhook (api/v1/webhooks.py, lines 549-636), one request per slot
\* ------------------------------------------------------------------------
Idle == [pc |-> "idle", ev |-> NoEvent, err |-> Null]

\* lines 579-588: the event is read and passed through should_process_event
Receive(d, e) ==
    /\ dlv[d].pc = "idle"
    \* requests are interchangeable: a new one takes the lowest free slot
    /\ \A x \in Deliveries : x < d => dlv[x].pc # "idle"
    /\ LET sp == should_process_event(log, e.id, e.type, e.created)
       IN  /\ log' = sp.log
           /\ IF sp.ok
              THEN /\ dlv' = [dlv EXCEPT ![d] =
                                [pc |-> "handle", ev |-> e, err |-> Null]]
                   /\ UNCHANGED answer
              ELSE /\ answer' = [ev |-> e, resp |-> "already_processed"]
                   /\ UNCHANGED dlv
    /\ UNCHANGED <<inflight, hist, now, subs, applied, stale, req, gens, provider>>

\* lines 590-623: the handler runs and commits
Handle(d) ==
    /\ dlv[d].pc = "handle"
    /\ \E r \in Dispatch(dlv[d].ev.type, subs, dlv[d].ev.data, now, provider) :
        LET e == dlv[d].ev
        IN  /\ subs' = r.subs
            /\ dlv' = [dlv EXCEPT ![d] =
                        IF r.outcome = "raised"
                        THEN [@ EXCEPT !.pc = "mark_failed", !.err = r.err]
                        ELSE [@ EXCEPT !.pc = "mark_processed"]]
            /\ IF r.outcome = "applied"
               THEN /\ applied' = [applied EXCEPT ![e.id] = @ + 1]
                    /\ stale' = IF \E x \in Events :
                                        /\ applied[x.id] > 0
                                        /\ x.type = e.type
                                        /\ x.created > e.created
                                THEN stale \cup {e.id} ELSE stale
               ELSE UNCHANGED <<applied, stale>>
            /\ hist' = Record(hist, e.type, e.data, subs, r, now)
    /\ UNCHANGED <<now, log, answer, req, gens, inflight, provider>>

\* lines 625-629
MarkProcessed(d) ==
    /\ dlv[d].pc = "mark_processed"
    /\ log' = mark_event_processed(log, dlv[d].ev.id, dlv[d].ev.type,
                                   dlv[d].ev.created)
    /\ answer' = [ev |-> dlv[d].ev, resp |-> "success"]
    /\ dlv' = [dlv EXCEPT ![d] = Idle]
    /\ UNCHANGED <<inflight, hist, now, subs, applied, stale, req, gens, provider>>

\* lines 631-636
MarkFailed(d) ==
    /\ dlv[d].pc = "mark_failed"
    /\ log' = mark_event_failed(log, dlv[d].ev.id, dlv[d].ev.type,
                                dlv[d].ev.created, dlv[d].err)
    /\ answer' = [ev |-> dlv[d].ev, resp |-> "error"]
    /\ dlv' = [dlv EXCEPT ![d] = Idle]
    /\ UNCHANGED <<inflight, hist, now, subs, applied, stale, req, gens, provider>>

\* ------------------------------------------------------------------------
\* Cooling-off refund (services/refund.py, api/v1/refunds.py).
\* Amounts are in cents; a charge that is not a whole number of cents is
\* rounded up, as amount=int(refund_amount * 100) rounds the refund down.
\* ------------------------------------------------------------------------
EU_COOLING_OFF_DAYS == 14
MINIMUM_USAGE_CHARGE == 1000
MAX_GENERATIONS_FOR_REFUND == 10
DefaultPricePerGeneration == 500

\* euros per generation as a fraction: plan price over plan quota
PRICE_PER_GENERATION ==
    [starter_monthly  |-> <<19, 3>>,
     starter_yearly   |-> <<171, 36>>,
     standard_monthly |-> <<39, 10>>,
     standard_yearly  |-> <<351, 120>>,
     pro_monthly      |-> <<79, 25>>,
     pro_yearly       |-> <<711, 300>>]

PriceKey(plan_type, billing_interval) ==
    IF plan_type \in PaidPlans
    THEN CASE plan_type = "starter" /\ billing_interval = "monthly" -> "starter_monthly"
           [] plan_type = "starter" /\ billing_interval = "yearly" -> "starter_yearly"
           [] plan_type = "standard" /\ billing_interval = "monthly" -> "standard_monthly"
           [] plan_type = "standard" /\ billing_interval = "yearly" -> "standard_yearly"
           [] plan_type = "pro" /\ billing_interval = "monthly" -> "pro_monthly"
           [] OTHER -> "pro_yearly"
    ELSE Null

CeilDiv(a, b) == (a + b - 1) \div b
Max(a, b) == IF a >= b THEN a ELSE b

Days(ticks) == ticks \div TicksPerDay

is_within_cooling_off_period(row, t) ==
    Days(t - row.created_at) <= EU_COOLING_OFF_DAYS

\* billing_interval is "monthly" unless the provider reports a yearly price
calculate_usage_charge(plan_type, billing_interval, generations_used) ==
    LET key == PriceKey(plan_type, billing_interval)
        raw_usage_charge ==
            IF key = Null
            THEN DefaultPricePerGeneration * generations_used
            ELSE CeilDiv(100 * PRICE_PER_GENERATION[key][1] * generations_used,
                         PRICE_PER_GENERATION[key][2])
    IN  IF generations_used > 0
        THEN Max(MINIMUM_USAGE_CHARGE, raw_usage_charge)
        ELSE 0

\* a variant that does not floor the refund at zero
calculate_refund_amount_mut(row, stripe_sub, generations_count, interval_known) ==
    LET billing_interval ==
            IF interval_known /\ stripe_sub.interval = "year"
            THEN "yearly" ELSE "monthly"
        usage_charge ==
            calculate_usage_charge(row.plan_type, billing_interval,
                                   generations_count)
    IN  [usage_charge |-> usage_charge,
         refund_amount |-> stripe_sub.amount_paid - usage_charge]

\* the refund for a row within the window, given the provider's record
calculate_refund_amount(row, stripe_sub, generations_count, interval_known) ==
    LET billing_interval ==
            IF interval_known /\ stripe_sub.interval = "year"
            THEN "yearly" ELSE "monthly"
        usage_charge ==
            calculate_usage_charge(row.plan_type, billing_interval,
                                   generations_count)
    IN  [usage_charge |-> usage_charge,
         refund_amount |-> Max(0, stripe_sub.amount_paid - usage_charge)]

NoRequest ==
    [pc |-> "idle", user |-> Null, sub |-> Null, refund |-> 0, issued |-> 0,
     downgraded |-> FALSE, resp |-> Null, err |-> Null]

Done(r, code, e) == [r EXCEPT !.pc = "done", !.resp = code, !.err = e]

\* a variant that does not ask for the acknowledgment of the usage charge
RefundBegin_mut(q, u, acknowledge_usage_charge) ==
    /\ req[q].pc \in {"idle", "done"}
    /\ \A x \in Requests : x < q => req[x].pc \notin {"idle", "done"}
    /\ LET r0 == [NoRequest EXCEPT !.user = u]
       IN
        IF u \notin DOMAIN subs
        THEN req' = [req EXCEPT ![q] = Done(r0, "404", "No subscription found")]
        ELSE IF subs[u].plan_type = "free"
        THEN req' = [req EXCEPT ![q] = Done(r0, "400", "free plan")]
        ELSE IF ~is_within_cooling_off_period(subs[u], now)
        THEN req' = [req EXCEPT ![q] = Done(r0, "400", "outside cooling-off")]
        ELSE IF subs[u].stripe_subscription_id = Null
        THEN req' = [req EXCEPT ![q] = Done(r0, "400", "No Stripe subscription")]
        ELSE
            LET sid == subs[u].stripe_subscription_id
                r1 == [r0 EXCEPT !.sub = sid]
            IN  \/ \* Subscription.retrieve or Invoice.retrieve raised
                   req' = [req EXCEPT ![q] =
                            Done(r1, "400", "Could not retrieve payment")]
                \/ /\ sid \in DOMAIN provider.subscriptions
                   /\ \E interval_known \in BOOLEAN :
                        LET calc == calculate_refund_amount(
                                        subs[u], provider.subscriptions[sid],
                                        gens[u], interval_known)
                        IN  req' = [req EXCEPT ![q] =
                                [r1 EXCEPT
                                    !.refund = calc.refund_amount,
                                    !.pc = IF calc.refund_amount <= 0
                                           THEN "cancel" ELSE "refund"]]
    /\ UNCHANGED <<inflight, hist, now, subs, log, dlv, answer, applied, stale, gens, provider>>

\* cancel_subscription_with_cooling_off down to the refund calculation of
\* process_cooling_off_refund (refunds.py 134-165, refund.py 235-257)
RefundBegin(q, u, acknowledge_usage_charge) ==
    /\ req[q].pc \in {"idle", "done"}
    /\ \A x \in Requests : x < q => req[x].pc \notin {"idle", "done"}
    /\ LET r0 == [NoRequest EXCEPT !.user = u]
       IN
        IF u \notin DOMAIN subs
        THEN req' = [req EXCEPT ![q] = Done(r0, "404", "No subscription found")]
        ELSE IF subs[u].plan_type = "free"
        THEN req' = [req EXCEPT ![q] = Done(r0, "400", "free plan")]
        ELSE IF ~is_within_cooling_off_period(subs[u], now)
        THEN req' = [req EXCEPT ![q] = Done(r0, "400", "outside cooling-off")]
        ELSE IF ~acknowledge_usage_charge
        THEN req' = [req EXCEPT ![q] = Done(r0, "400", "not acknowledged")]
        ELSE IF subs[u].stripe_subscription_id = Null
        THEN req' = [req EXCEPT ![q] = Done(r0, "400", "No Stripe subscription")]
        ELSE
            LET sid == subs[u].stripe_subscription_id
                r1 == [r0 EXCEPT !.sub = sid]
            IN  \/ \* Subscription.retrieve or Invoice.retrieve raised
                   req' = [req EXCEPT ![q] =
                            Done(r1, "400", "Could not retrieve payment")]
                \/ /\ sid \in DOMAIN provider.subscriptions
                   /\ \E interval_known \in BOOLEAN :
                        LET calc == calculate_refund_amount(
                                        subs[u], provider.subscriptions[sid],
                                        gens[u], interval_known)
                        IN  req' = [req EXCEPT ![q] =
                                [r1 EXCEPT
                                    !.refund = calc.refund_amount,
                                    !.pc = IF calc.refund_amount <= 0
                                           THEN "cancel" ELSE "refund"]]
    /\ UNCHANGED <<inflight, hist, now, subs, log, dlv, answer, applied, stale, gens, provider>>

RECURSIVE TotalRefunded(_)
\* the sum of the amounts of the refunds the provider created
TotalRefunded(refunds) ==
    IF refunds = <<>> THEN 0
    ELSE Head(refunds).amount + TotalRefunded(Tail(refunds))

\* a variant that cancels the subscription before the refund is created
RefundIssue_mut(q) ==
    /\ req[q].pc = "refund"
    /\ \/ /\ req' = [req EXCEPT ![q] = Done(@, "400", "Refund failed")]
          /\ subs' = [subs EXCEPT ![req[q].user] = DowngradeDeleted(@, now)]
          /\ UNCHANGED provider
       \/ /\ Len(provider.refunds) < MaxRefunds
          /\ provider' = [provider EXCEPT !.refunds =
                            Append(@, [charge |-> req[q].sub,
                                       amount |-> req[q].refund])]
          /\ req' = [req EXCEPT ![q] = [@ EXCEPT !.pc = "cancel",
                                                 !.issued = req[q].refund]]
          /\ UNCHANGED subs
    /\ UNCHANGED <<inflight, hist, now, log, dlv, answer, applied, stale, gens>>

\* refund.py 259-286: the charge is looked up and the refund is created
RefundIssue(q) ==
    /\ req[q].pc = "refund"
    /\ \/ \* a retrieve or stripe.Refund.create raised a StripeError
          /\ req' = [req EXCEPT ![q] = Done(@, "400", "Refund failed")]
          /\ UNCHANGED provider
       \/ \* invoice.charge is empty
          /\ req' = [req EXCEPT ![q] =
                        Done(@, "400", "No charge found on invoice")]
          /\ UNCHANGED provider
       \/ /\ Len(provider.refunds) < MaxRefunds
          \* the provider refunds no more than the charge's amount
          /\ TotalRefunded(provider.refunds) + req[q].refund
                <= provider.subscriptions[req[q].sub].amount_paid
          /\ provider' = [provider EXCEPT !.refunds =
                            Append(@, [charge |-> req[q].sub,
                                       amount |-> req[q].refund])]
          /\ req' = [req EXCEPT ![q] = [@ EXCEPT !.pc = "cancel",
                                                 !.issued = req[q].refund]]
    /\ UNCHANGED <<inflight, hist, now, subs, log, dlv, answer, applied, stale, gens>>

\* _cancel_subscription_immediately (refund.py 304-327) and the return
\* through process_cooling_off_refund and the endpoint
RefundCancel(q) ==
    /\ req[q].pc = "cancel"
    /\ LET u == req[q].user
           sid == req[q].sub
       IN
        \/ \* stripe.Subscription.delete raised and is re-raised: after a
           \* refund it is caught as a StripeError by the refund's handler
           /\ req' = [req EXCEPT ![q] =
                        IF req[q].issued > 0
                        THEN Done(@, "400", "Refund failed")
                        ELSE Done(@, "500", "StripeError")]
           /\ UNCHANGED <<subs, provider>>
        \/ /\ sid \in DOMAIN provider.subscriptions
           /\ provider.subscriptions[sid].status # "canceled"
           /\ provider' = [provider EXCEPT
                            !.subscriptions[sid].status = "canceled"]
           /\ subs' = [subs EXCEPT ![u] = DowngradeDeleted(@, now)]
           \* the zero-refund result has no 'generations_used' key for the
           \* endpoint to read
           /\ req' = [req EXCEPT ![q] =
                        [Done(@, IF req[q].issued > 0 THEN "200" ELSE "500",
                              Null) EXCEPT !.downgraded = TRUE]]
    /\ UNCHANGED <<inflight, hist, now, log, dlv, answer, applied, stale, gens>>

\* ------------------------------------------------------------------------
\* Subscription service (services/subscription.py) and scheduled jobs
\* (tasks/scheduled.py)
\* ------------------------------------------------------------------------
GRACE_PERIOD_DAYS == 3
MaxUsed == 16

\* a variant that looks at the remaining quota whatever the status
check_generation_quota_mut(s, u, t) ==
    IF u \notin DOMAIN s THEN FALSE
    ELSE s[u].generations_used < s[u].generations_limit

check_generation_quota(s, u, t) ==
    IF u \notin DOMAIN s THEN FALSE
    ELSE IF s[u].status \in {"active", "trialing"}
    THEN s[u].generations_used < s[u].generations_limit
    ELSE IF s[u].status = "past_due"
            /\ Days(t - s[u].updated_at) <= GRACE_PERIOD_DAYS
    THEN s[u].generations_used < s[u].generations_limit
    ELSE FALSE

\* increment_usage, called when a generation admitted by start_generation
\* completes
IncrementUsage(u) ==
    /\ check_generation_quota(subs, u, now)
    /\ subs[u].generations_used < MaxUsed
    /\ subs' = [subs EXCEPT ![u] = [@ EXCEPT !.generations_used = @ + 1,
                                             !.updated_at = now]]
    /\ UNCHANGED <<inflight, hist, now, log, dlv, answer, applied, stale, req, gens, provider>>

\* ------------------------------------------------------------------------
\* Generation flow (api/v1/generations.py, tasks/generation.py)
\* ------------------------------------------------------------------------
\* the active websites each user owns
Websites == {"w1", "w2"}

\* start_generation, lines 56-76: the quota check, then the check for a
\* generation in progress on the website
start_generation_admits(s, fl, u, w, t) ==
    /\ check_generation_quota(s, u, t)
    /\ <<u, w>> \notin fl

\* start_generation: a pending Generation row is created and the task queued
StartGeneration(u, w) ==
    /\ start_generation_admits(subs, inflight, u, w, now)
    /\ inflight' = inflight \cup {<<u, w>>}
    /\ UNCHANGED <<hist, now, subs, log, dlv, answer, applied, stale, req,
                   gens, provider>>

\* generate_llm_content, lines 310-332: the row becomes completed, then
\* increment_usage adds one to generations_used with no look at the limit;
\* without a Subscription row it raises and the task logs the error
CompleteGeneration(u, w) ==
    /\ <<u, w>> \in inflight
    /\ inflight' = inflight \ {<<u, w>>}
    /\ gens' = [gens EXCEPT ![u] = @ + 1]
    /\ IF u \in DOMAIN subs
       THEN /\ subs[u].generations_used < MaxUsed
            /\ subs' = [subs EXCEPT ![u] =
                            [@ EXCEPT !.generations_used = @ + 1,
                                      !.updated_at = now]]
       ELSE UNCHANGED subs
    /\ UNCHANGED <<hist, now, log, dlv, answer, applied, stale, req, provider>>

\* generate_llm_content: the task raised and the row becomes failed
FailGeneration(u, w) ==
    /\ <<u, w>> \in inflight
    /\ inflight' = inflight \ {<<u, w>>}
    /\ UNCHANGED <<hist, now, subs, log, dlv, answer, applied, stale, req,
                   gens, provider>>

\* delete_generation on a completed row: the row is removed from the table
DeleteGeneration(u) ==
    /\ gens[u] > 0
    /\ gens' = [gens EXCEPT ![u] = @ - 1]
    /\ hist' = [hist EXCEPT !.deleted[u] = @ + 1]
    /\ UNCHANGED <<inflight, now, subs, log, dlv, answer, applied, stale, req,
                   provider>>

\* create_checkout_session, lines 61-153
CreateCheckoutSession(u, plan_type) ==
    /\ plan_type \in PaidPlans
    /\ IF u \in DOMAIN subs /\ subs[u].stripe_subscription_id # Null
            /\ subs[u].plan_type # "free"
       THEN \* lines 72-122: the provider's subscription is modified, then
            \* the local record is updated without waiting for the webhook
            /\ subs[u].stripe_subscription_id \in DOMAIN provider.subscriptions
            /\ subs' = [subs EXCEPT ![u] =
                    [@ EXCEPT
                        !.plan_type = plan_type,
                        !.generations_limit =
                            get_plan_limits(plan_type).generations_limit,
                        !.websites_limit =
                            get_plan_limits(plan_type).max_websites,
                        !.updated_at = now]]
       ELSE \* lines 136-153: a customer is created when none is on record
            /\ u \in DOMAIN subs
            /\ subs[u].stripe_customer_id = Null
            /\ UniqueOK([subs EXCEPT ![u].stripe_customer_id = CustomerOf(u)])
            /\ subs' = [subs EXCEPT ![u] =
                    [@ EXCEPT !.stripe_customer_id = CustomerOf(u),
                              !.updated_at = now]]
    /\ UNCHANGED <<inflight, hist, now, log, dlv, answer, applied, stale, req, gens, provider>>

\* reset_monthly_quotas: one UPDATE over the whole table, which stamps
\* updated_at on every row
ResetMonthlyQuotas ==
    /\ subs' = [u \in DOMAIN subs |->
                    [subs[u] EXCEPT !.generations_used = 0, !.updated_at = now]]
    /\ UNCHANGED <<inflight, hist, now, log, dlv, answer, applied, stale, req, gens, provider>>

\* sync_stripe_subscriptions: each pending row takes the provider's status
\* unless its retrieve fails
SyncStripeSubscriptions ==
    LET pending == {u \in DOMAIN subs :
                        /\ subs[u].stripe_subscription_id # Null
                        /\ subs[u].status \notin {"active", "trialing", "canceled"}}
    IN  /\ \E ok \in SUBSET pending :
            subs' = [u \in DOMAIN subs |->
                IF /\ u \in ok
                   /\ subs[u].stripe_subscription_id \in DOMAIN provider.subscriptions
                   /\ provider.subscriptions[subs[u].stripe_subscription_id].status
                        # subs[u].status
                THEN [subs[u] EXCEPT
                        !.status = provider.subscriptions[
                                        subs[u].stripe_subscription_id].status,
                        !.updated_at = now]
                ELSE subs[u]]
        /\ UNCHANGED <<inflight, hist, now, log, dlv, answer, applied, stale, req, gens, provider>>

\* cancel_user_subscription_on_deletion
CancelOnDeletion(u) ==
    /\ u \in DOMAIN subs
    /\ \E deleted \in BOOLEAN :
        /\ provider' =
            IF /\ deleted
               /\ subs[u].stripe_subscription_id \in DOMAIN provider.subscriptions
            THEN [provider EXCEPT
                    !.subscriptions[subs[u].stripe_subscription_id].status =
                        "canceled"]
            ELSE provider
        /\ subs' = [subs EXCEPT ![u] =
                        [@ EXCEPT !.status = "canceled",
                                  !.plan_type = "free",
                                  !.stripe_subscription_id = Null,
                                  !.updated_at = now]]
    /\ UNCHANGED <<inflight, hist, now, log, dlv, answer, applied, stale, req, gens>>

\* a cooling-off cancellation run to its end: process_cooling_off_refund
\* reaching _cancel_subscription_immediately, which succeeds
CoolingOffCancel(u) ==
    /\ u \in DOMAIN subs
    /\ subs[u].plan_type # "free"
    /\ is_within_cooling_off_period(subs[u], now)
    /\ subs[u].stripe_subscription_id \in DOMAIN provider.subscriptions
    /\ provider.subscriptions[subs[u].stripe_subscription_id].status # "canceled"
    /\ provider' = [provider EXCEPT
            !.subscriptions[subs[u].stripe_subscription_id].status = "canceled"]
    /\ subs' = [subs EXCEPT ![u] = DowngradeDeleted(@, now)]
    /\ UNCHANGED <<inflight, hist, now, log, dlv, answer, applied, stale, req, gens>>

\* the provider's own record of a subscription changes
ProviderChange(sid, st) ==
    /\ provider.subscriptions[sid].status # st
    /\ provider' = [provider EXCEPT !.subscriptions[sid].status = st]
    /\ UNCHANGED <<inflight, hist, now, subs, log, dlv, answer, applied, stale, req, gens>>

\* one event applied by its handler
ApplyEvent(event_type, data) ==
    /\ \E r \in Dispatch(event_type, subs, data, now, provider) :
        /\ subs' = r.subs
        /\ hist' = Record(hist, event_type, data, subs, r, now)
    /\ UNCHANGED <<now, log, dlv, answer, applied, stale, req, gens, inflight,
                   provider>>

\* ------------------------------------------------------------------------
\* Initial states
\* ------------------------------------------------------------------------
Row(plan, st, cus, sub, used) ==
    [plan_type |-> plan, status |-> st, stripe_customer_id |-> cus,
     stripe_subscription_id |-> sub, generations_used |-> used,
     generations_limit |-> get_plan_limits(plan).generations_limit,
     websites_limit |-> get_plan_limits(plan).max_websites,
     created_at |-> 0, updated_at |-> 0]

\* the provider's record of each subscription: its status, the interval of
\* its price and the amount paid on its latest invoice, in cents
ProviderWith(interval, amount_paid) ==
    [subscriptions |->
        [x \in SubRefs |-> [status |-> "active", interval |-> interval,
                            amount_paid |-> amount_paid]],
     refunds |-> <<>>]

InitProvider == ProviderWith("month", 7900)

InitCommon ==
    /\ log = {}
    /\ dlv = [d \in Deliveries |-> Idle]
    /\ answer = [ev |-> NoEvent, resp |-> Null]
    /\ applied = [i \in EventIds |-> 0]
    /\ stale = {}
    /\ req = [q \in Requests |-> NoRequest]
    /\ hist = [failed_at |-> [u \in Users |-> Never],
               paid_at |-> [u \in Users |-> Never],
               disputed |-> [u \in Users |-> FALSE],
               deleted |-> [u \in Users |-> 0]]
    /\ inflight = {}

\* u1 subscribed to pro and used 15 generations; u2 has not subscribed yet
InitWebhook ==
    /\ InitCommon
    /\ now = 0
    /\ gens = [u \in Users |-> 0]
    /\ provider = InitProvider
    /\ subs = [u \in {"u1"} |-> Row("pro", "active", "cus_1", "sub_1", 15)]

\* what u1 bought at tick 0: the plan, the interval of its price and the
\* amount paid on the invoice (the list price, or a discounted 5.00)
Purchases ==
    {<<"pro", "month", 7900>>, <<"pro", "year", 71100>>,
     <<"starter", "month", 1900>>, <<"standard", "year", 35100>>,
     <<"standard", "month", 500>>}

\* u1 paid for a plan at tick 0 and completed some generations; the request
\* comes inside or outside the 14 days
InitRefund ==
    /\ InitCommon
    /\ now \in {0, EU_COOLING_OFF_DAYS * TicksPerDay + 1,
                (EU_COOLING_OFF_DAYS + 1) * TicksPerDay}
    /\ \E b \in Purchases, st \in {"active", "past_due"} :
        /\ subs = [u \in {"u1"} |-> Row(b[1], st, "cus_1", "sub_1", 0)]
        /\ provider = ProviderWith(b[2], b[3])
    /\ gens \in {[u \in Users |-> IF u = "u1" THEN n ELSE 0] : n \in {0, 2, 4, 30}}

NextRefund ==
    \/ \E q \in Requests, u \in Users, ack \in BOOLEAN : RefundBegin(q, u, ack)
    \/ \E q \in Requests : RefundIssue(q)
    \/ \E q \in Requests : RefundCancel(q)

SpecRefund == InitRefund /\ [][NextRefund]_vars

\* the payloads of the events about u1's customer and subscriptions
Prices ==
    {Null, STRIPE_PRICE_STANDARD, STRIPE_PRICE_PRO,
     STRIPE_PRICE_STARTER_MONTHLY, STRIPE_PRICE_STARTER_YEARLY,
     STRIPE_PRICE_STANDARD_MONTHLY, STRIPE_PRICE_STANDARD_YEARLY,
     STRIPE_PRICE_PRO_MONTHLY, STRIPE_PRICE_PRO_YEARLY}

\* subscription events: every provider status with the prices the handler
\* tells apart, and every price the checkout sells with status active
SubscriptionPayloads ==
    {[NoData EXCEPT !.obj = o, !.customer = c, !.status = st, !.price = p] :
        o \in {"sub_1"}, c \in {"cus_1", Null}, st \in ProviderStatuses,
        p \in {Null, STRIPE_PRICE_STANDARD, STRIPE_PRICE_PRO,
               STRIPE_PRICE_STARTER_MONTHLY}}
    \cup
    {[NoData EXCEPT !.obj = "sub_1", !.customer = "cus_1", !.status = "active",
                    !.price = p] : p \in Prices}
    \cup
    {[NoData EXCEPT !.customer = "cus_1", !.status = "active"]}

LedgerEvents ==
    {<<"customer.subscription.updated", d>> : d \in SubscriptionPayloads}
    \cup
    {<<"customer.subscription.created",
       [NoData EXCEPT !.obj = "sub_1", !.customer = "cus_1",
                      !.status = st, !.price = STRIPE_PRICE_PRO]>> :
        st \in {"active", "incomplete"}}
    \cup
    {<<"customer.subscription.deleted", [NoData EXCEPT !.obj = o]>> :
        o \in {"sub_1", "sub_9", Null}}
    \cup
    {<<"checkout.session.completed",
       [NoData EXCEPT !.customer = "cus_1", !.subscription = "sub_1",
                      !.meta_user = mu, !.meta_plan = pl]>> :
        mu \in {"u1", Null}, pl \in PaidPlans}
    \cup
    {<<ty, [NoData EXCEPT !.customer = "cus_1", !.subscription = sid]>> :
        ty \in {"invoice.payment_failed", "invoice.payment_succeeded",
                "invoice.payment_action_required"},
        sid \in {"sub_1", "sub_9", Null}}
    \cup
    {<<ty, [NoData EXCEPT !.customer = c, !.refunded = rf]>> :
        ty \in {"charge.dispute.created", "charge.refunded"},
        c \in {"cus_1", Null}, rf \in BOOLEAN}
    \cup
    {<<"customer.deleted", [NoData EXCEPT !.obj = "cus_1"]>>}

\* nobody has subscribed yet, or u1 is on pro with 15 generations used
InitLedger ==
    /\ InitCommon
    /\ now = 0
    /\ gens = [u \in Users |-> 0]
    /\ provider = InitProvider
    /\ subs \in {<<>>, [u \in {"u1"} |-> Row("pro", "active", "cus_1", "sub_1", 15)]}

NextLedger ==
    \/ \E ev \in LedgerEvents : ApplyEvent(ev[1], ev[2])
    \/ \E u \in Users, pl \in PaidPlans : CreateCheckoutSession(u, pl)
    \/ \E u \in Users : IncrementUsage(u)
    \/ ResetMonthlyQuotas
    \/ SyncStripeSubscriptions
    \/ \E u \in Users : CancelOnDeletion(u)
    \/ \E u \in Users : CoolingOffCancel(u)
    \/ \E st \in ProviderStatuses : ProviderChange("sub_1", st)

SpecLedger == InitLedger /\ [][NextLedger]_vars

\* the clock starts when a record created at tick 0 is 15 days old
ClockStart == (EU_COOLING_OFF_DAYS + 1) * TicksPerDay
ClockEnd == ClockStart + MaxClockDays * TicksPerDay

\* time passes
Tick ==
    /\ now < ClockEnd
    /\ now' = now + 1
    /\ UNCHANGED <<subs, log, dlv, answer, applied, stale, req, gens,
                   inflight, provider, hist>>

\* the events of u1's subscription over time: a checkout for pro, failed and
\* succeeded payments, and an update that reports the subscription past due
ClockEvents ==
    {<<"checkout.session.completed",
       [NoData EXCEPT !.customer = "cus_1", !.subscription = "sub_1",
                      !.meta_user = "u1", !.meta_plan = "pro"]>>,
     <<"invoice.payment_failed",
       [NoData EXCEPT !.customer = "cus_1", !.subscription = "sub_1"]>>,
     <<"invoice.payment_succeeded",
       [NoData EXCEPT !.customer = "cus_1", !.subscription = "sub_1"]>>,
     <<"customer.subscription.updated",
       [NoData EXCEPT !.obj = "sub_1", !.customer = "cus_1",
                      !.status = "past_due", !.price = STRIPE_PRICE_PRO]>>}

\* u1 has just subscribed to pro, or has the record of a subscription that
\* was made at tick 0 and canceled the same day
InitClock ==
    /\ InitCommon
    /\ now = ClockStart
    /\ gens = [u \in Users |-> 0]
    /\ provider = InitProvider
    /\ subs \in
        {[u \in {"u1"} |->
            [Row("pro", "active", "cus_1", "sub_1", 0)
                EXCEPT !.created_at = now, !.updated_at = now]],
         [u \in {"u1"} |-> Row("free", "canceled", "cus_1", Null, 0)]}

NextClock ==
    \/ Tick
    \/ \E ev \in ClockEvents : ApplyEvent(ev[1], ev[2])
    \/ \E u \in Users : IncrementUsage(u)
    \/ ResetMonthlyQuotas
    \/ SyncStripeSubscriptions
    \/ \E u \in Users : CoolingOffCancel(u)
    \/ \E st \in {"active", "past_due"} : ProviderChange("sub_1", st)

SpecClock == InitClock /\ [][NextClock]_vars

\* u1 is on starter and u2 on standard, each with two websites; the
\* generations used in the period are the completed rows since created_at
InitGeneration ==
    /\ InitCommon
    /\ now = 0
    /\ provider = InitProvider
    /\ \E n \in {0, 2} :
        /\ subs = [u \in Users |->
                    IF u = "u1" THEN Row("starter", "active", "cus_1", "sub_1", n)
                    ELSE Row("standard", "active", "cus_2", "sub_2", 9)]
        /\ gens = [u \in Users |-> IF u = "u1" THEN n ELSE 9]

NextGeneration ==
    \/ \E u \in Users, w \in Websites : StartGeneration(u, w)
    \/ \E u \in Users, w \in Websites : CompleteGeneration(u, w)
    \/ \E u \in Users, w \in Websites : FailGeneration(u, w)
    \/ \E u \in Users : DeleteGeneration(u)

SpecGeneration == InitGeneration /\ [][NextGeneration]_vars

\* the events delivered to the endpoint: two updates of one subscription, a
\* checkout and a deletion of an unknown subscription
EndpointEvents == {e \in Events : e.id \in {"evt_A", "evt_B", "evt_C", "evt_D"}}

NextWebhook ==
    \/ \E d \in Deliveries, e \in EndpointEvents : Receive(d, e)
    \/ \E d \in Deliveries : Handle(d)
    \/ \E d \in Deliveries : MarkProcessed(d)
    \/ \E d \in Deliveries : MarkFailed(d)

SpecWebhook == InitWebhook /\ [][NextWebhook]_vars

\* the events delivered when two customers' deletions cross: evt_D is about
\* cus_9, evt_E (earlier timestamp) about u1's subscription
CrossCustomerEvents == {e \in Events : e.id \in {"evt_C", "evt_D", "evt_E"}}

NextCrossCustomer ==
    \/ \E d \in Deliveries, e \in CrossCustomerEvents : Receive(d, e)
    \/ \E d \in Deliveries : Handle(d)
    \/ \E d \in Deliveries : MarkProcessed(d)
    \/ \E d \in Deliveries : MarkFailed(d)

SpecCrossCustomer == InitWebhook /\ [][NextCrossCustomer]_vars

\* ------------------------------------------------------------------------
\* Properties of the webhook event log and the dispatch boundary
\* ------------------------------------------------------------------------
Timestamps == 0..3

HasRow(lg, event_id) == \E r \in lg : r.id = event_id
\* request d passed should_process_event in this step
Admitted(d) == dlv[d].pc = "idle" /\ dlv'[d].pc = "handle"
\* a request was answered "already_processed" in this step
Rejected == answer' # answer /\ answer'.resp = "already_processed"

\* C1 (idempotency): for every event id that has a row in the log, whether
\* written as processed or as failed, should_process_event is false for any
\* type and timestamp and leaves the log alone; a redelivery of that id is
\* never admitted to its handler, it is answered "already_processed" and
\* changes neither the log nor any Subscription row.
C1_Idempotency ==
    /\ [](\A r \in log, ty \in EventTypes, ts \in Timestamps :
            /\ ~should_process_event(log, r.id, ty, ts).ok
            /\ should_process_event(log, r.id, ty, ts).log = log)
    /\ [][/\ \A d \in Deliveries :
                Admitted(d) => ~HasRow(log, dlv'[d].ev.id)
          /\ (Rejected /\ HasRow(log, answer'.ev.id))
                => (log' = log /\ subs' = subs /\ dlv' = dlv)]_vars

\* a redelivery of an event logged as failed was answered already_processed
C1_Witness ==
    /\ answer.resp = "already_processed"
    /\ \E r \in log : r.id = answer.ev.id /\ r.status = "failed"

NewerProcessed(lg, e) ==
    \E r \in lg : r.status = "processed" /\ r.type = e.type
                    /\ r.created > e.created

\* C2 (ordering): when the log holds a processed row of the same type with
\* a greater timestamp, an event without a row of its own is not admitted to
\* its handler; it is answered "already_processed", no Subscription row
\* changes, the event is written to the log as processed, and
\* should_process_event is false for it afterwards.
C2_Ordering ==
    [][/\ \A d \in Deliveries :
            Admitted(d) => ~NewerProcessed(log, dlv'[d].ev)
       /\ (Rejected /\ ~HasRow(log, answer'.ev.id))
            => /\ NewerProcessed(log, answer'.ev)
               /\ subs' = subs
               /\ applied' = applied
               /\ dlv' = dlv
               /\ log' = log \cup {[id |-> answer'.ev.id,
                                    type |-> answer'.ev.type,
                                    created |-> answer'.ev.created,
                                    status |-> "processed",
                                    error_message |-> Null]}
               /\ ~should_process_event(log', answer'.ev.id, answer'.ev.type,
                                        answer'.ev.created).ok]_vars

\* evt_A (timestamp 1) was rejected after evt_B (timestamp 2) was processed:
\* it is in the log as processed although its handler never ran
C2_Witness ==
    /\ \E r \in log : r.id = "evt_B" /\ r.status = "processed"
    /\ \E r \in log : r.id = "evt_A" /\ r.status = "processed"
    /\ applied["evt_A"] = 0
    /\ applied["evt_B"] = 1
    /\ answer.ev.id = "evt_A"
    /\ answer.resp = "already_processed"

\* C3 (ordering guard under interleaving): no event's handler takes effect
\* on a Subscription after the handler of a later event of the same type has.
C3_OrderingUnderInterleaving == stale = {}

\* C4 (duplicate-delivery race): of all the deliveries of one event id at
\* most one applies the handler to a Subscription, and the log holds one row
\* for the id.
C4_DuplicateRace ==
    /\ \A i \in EventIds : applied[i] <= 1
    /\ \A r1, r2 \in log : r1.id = r2.id => r1 = r2

C10_NotFoundIsFailed ==
    \A r \in log, e \in Events :
        (/\ r.id = e.id
         /\ e.type = "customer.subscription.deleted"
         /\ e.data.obj \notin SubRefs)
            => r.status = "failed"

\* C11 (append-only log, unique ids): the log holds at most one row per event
\* id, every row has status processed or failed, and every step keeps each
\* row of the log as it is (no update, no delete) and adds at most one row.
C11_AppendOnlyLog ==
    /\ [](/\ \A r1, r2 \in log : r1.id = r2.id => r1 = r2
          /\ \A r \in log : r.status \in {"processed", "failed"})
    /\ [][/\ log \subseteq log'
          /\ Cardinality(log' \ log) <= 1]_vars

\* two overlapping deliveries of the checkout event: one failed and wrote
\* the failed row, the other succeeded and its insert was refused
C11_Witness ==
    /\ \E r \in log : r.id = "evt_C" /\ r.status = "failed"
    /\ applied["evt_C"] = 1
    /\ answer.ev.id = "evt_C"
    /\ answer.resp = "success"

\* C24 (the ordering guard counts processed rows only): for an event whose
\* id has no row, of any type and timestamp, should_process_event is true
\* exactly when the log has no row with status processed, the same type and
\* a strictly greater timestamp.
C24_GuardCountsProcessedOnly ==
    \A ty \in EventTypes, ts \in Timestamps :
        should_process_event(log, "evt_X", ty, ts).ok
            <=> ~\E r \in log : /\ r.status = "processed"
                                /\ r.type = ty
                                /\ r.created > ts

ProcessedRow(e) ==
    [id |-> e.id, type |-> e.type, created |-> e.created,
     status |-> "processed", error_message |-> Null]

\* C26 (the ordering guard ignores the customer): an event without a row of
\* its own is refused by should_process_event and written to the log as
\* processed whenever the log holds a row of the same type with a greater
\* timestamp for an event about another customer; the refusing request
\* changes no Subscription row and runs no handler, and once the event is
\* in the log unapplied with no request for it in flight, it is never
\* applied.
C26_GuardIgnoresCustomer ==
    /\ [](\A e \in Events :
            (/\ ~HasRow(log, e.id)
             /\ \E r \in log :
                    /\ r.type = e.type
                    /\ r.created > e.created
                    /\ ConcernedCustomer(r.id) # ConcernedCustomer(e.id))
                => LET sp == should_process_event(log, e.id, e.type, e.created)
                   IN  /\ ~sp.ok
                       /\ sp.log = log \cup {ProcessedRow(e)})
    /\ [][/\ (Rejected /\ ~HasRow(log, answer'.ev.id))
                => /\ subs' = subs
                   /\ applied' = applied
                   /\ ProcessedRow(answer'.ev) \in log'
          /\ \A e \in Events :
                (/\ ProcessedRow(e) \in log
                 /\ applied[e.id] = 0
                 /\ \A d \in Deliveries : dlv[d].ev.id # e.id)
                    => applied'[e.id] = 0]_vars

\* the deletion of u1's subscription (evt_E, timestamp 0) was refused after
\* the deletion about cus_9 (evt_D, timestamp 1) was logged: it is in the log
\* as processed, no request is in flight, and u1's row is still linked
C26_Witness ==
    /\ ProcessedRow(CHOOSE e \in Events : e.id = "evt_D") \in log
    /\ ProcessedRow(CHOOSE e \in Events : e.id = "evt_E") \in log
    /\ applied["evt_E"] = 0
    /\ answer.ev.id = "evt_E"
    /\ answer.resp = "already_processed"
    /\ \A d \in Deliveries : dlv[d].pc = "idle"
    /\ subs["u1"].stripe_subscription_id = "sub_1"
    /\ subs["u1"].plan_type = "pro"

\* ------------------------------------------------------------------------
\* Properties of the ledger and of the cooling-off refund
\* ------------------------------------------------------------------------

\* C5 (quota cap invariant): in every state the program reaches, whatever
\* changed the row before, for every subscription created/updated payload
\* the row that handle_subscription_updated has updated ends with
\* generations_used <= generations_limit.
C5_QuotaCap ==
    \A d \in SubscriptionPayloads :
        \A r \in handle_subscription_updated(subs, d, now) :
            r.outcome = "applied"
                => \A u \in BySubscription(r.subs, d.obj) :
                        r.subs[u].generations_used <= r.subs[u].generations_limit

\* C6 (refund and downgrade are all-or-nothing): whenever a cancellation
\* request ends, either it issued no refund and changed nothing, or the
\* Subscription is canceled, on the free tier and without a subscription
\* ref, and the refund issued is exactly refund_amount (none when it is 0).
C6_AllOrNothing ==
    [][\A q \in Requests :
        (req'[q] # req[q] /\ req'[q].pc = "done")
            => \/ /\ req'[q].issued = 0
                  /\ ~req'[q].downgraded
                  /\ subs' = subs
                  /\ provider' = provider
               \/ /\ req'[q].downgraded
                  /\ subs'[req'[q].user].status = "canceled"
                  /\ subs'[req'[q].user].plan_type = "free"
                  /\ subs'[req'[q].user].stripe_subscription_id = Null
                  /\ req'[q].issued = req'[q].refund]_vars

\* C7 (atomicity on refund failure): when the refund call raises, the
\* request ends with the error "Refund failed" (HTTP 400), it has issued no
\* refund, and neither that step nor the steps of the request before it
\* changed any Subscription row or the provider's subscription.
C7_AtomicOnRefundFailure ==
    [][\A q \in Requests :
        /\ (req[q].pc = "refund" /\ req'[q].pc = "done")
            => /\ req'[q].resp = "400"
               /\ req'[q].err \in {"Refund failed", "No charge found on invoice"}
               /\ req'[q].issued = 0
               /\ ~req'[q].downgraded
               /\ subs' = subs
               /\ provider' = provider
        /\ (req[q].pc \in {"idle", "done"} /\ req'[q] # req[q])
            => (subs' = subs /\ provider' = provider)]_vars

\* a request failed at the refund call: the subscription is still on pro,
\* linked to its provider subscription, which is not canceled
C7_Witness ==
    \E q \in Requests :
        /\ req[q].pc = "done"
        /\ req[q].err = "Refund failed"
        /\ req[q].refund > 0
        /\ req[q].user \in DOMAIN subs
        /\ subs[req[q].user].plan_type = "pro"
        /\ subs[req[q].user].status \in {"active", "past_due"}
        /\ subs[req[q].user].stripe_subscription_id = req[q].sub
        /\ provider.subscriptions[req[q].sub].status = "active"
        /\ provider.refunds = <<>>

\* the rows whose usage counter is lower after this step
Lowered ==
    {u \in (DOMAIN subs) \cap (DOMAIN subs') :
        subs'[u].generations_used < subs[u].generations_used}

\* C12 as stated (usage is monotonic within a billing period): a step that
\* lowers a Subscription's generations_used is a run of the monthly reset.
C12_OnlyResetLowersUsage ==
    [][Lowered # {} => ResetMonthlyQuotas]_vars

\* C12 (amended): a step that lowers a Subscription's generations_used is
\* either a run of the monthly reset, which sets it to 0, or a subscription
\* created/updated event that changes the tier of a row whose usage is above
\* the new tier's limit, which sets it to exactly that limit.
C12_UsageLoweredByResetOrCap ==
    [][\A u \in Lowered :
        \/ ResetMonthlyQuotas /\ subs'[u].generations_used = 0
        \/ /\ \E ev \in LedgerEvents :
                /\ ev[1] \in {"customer.subscription.updated",
                               "customer.subscription.created"}
                /\ ApplyEvent(ev[1], ev[2])
           /\ subs'[u].plan_type # subs[u].plan_type
           /\ subs[u].generations_used >
                    get_plan_limits(subs'[u].plan_type).generations_limit
           /\ subs'[u].generations_used = subs'[u].generations_limit
           /\ subs'[u].generations_limit =
                    get_plan_limits(subs'[u].plan_type).generations_limit]_vars

\* the pro row with 15 generations used, moved to standard and capped at 10
C12_Witness ==
    /\ "u1" \in DOMAIN subs
    /\ subs["u1"].plan_type = "standard"
    /\ subs["u1"].generations_used = 10
    /\ subs["u1"].generations_limit = 10
    /\ subs["u1"].stripe_subscription_id = "sub_1"

\* cents is at least the price of n generations on the plan
AtLeastPrice(cents, plan_type, billing_interval, n) ==
    LET key == PriceKey(plan_type, billing_interval)
        num == IF key = Null THEN DefaultPricePerGeneration
               ELSE 100 * PRICE_PER_GENERATION[key][1]
        den == IF key = Null THEN 1 ELSE PRICE_PER_GENERATION[key][2]
    IN  cents * den >= num * n

\* cents is the price of n generations on the plan: the least whole number
\* of cents that covers it
CoversPrice(cents, plan_type, billing_interval, n) ==
    /\ AtLeastPrice(cents, plan_type, billing_interval, n)
    /\ ~AtLeastPrice(cents - 1, plan_type, billing_interval, n)

\* C13 (refund calculation): for every subscription inside the cooling-off
\* window, with total_paid the amount of the provider's invoice and n the
\* completed generations, calculate_refund_amount yields usage_charge = 0
\* when n = 0 and the larger of 10.00 and the price of n generations when
\* n > 0, and refund_amount = max(0, total_paid - usage_charge), which is
\* never negative, never above total_paid, and total_paid when n = 0; the
\* refund a cancellation request goes on with is that amount.
C13_RefundCalculation ==
    /\ [](\A u \in DOMAIN subs, interval_known \in BOOLEAN :
        (/\ is_within_cooling_off_period(subs[u], now)
         /\ subs[u].stripe_subscription_id \in DOMAIN provider.subscriptions)
        => LET ps == provider.subscriptions[subs[u].stripe_subscription_id]
               n == gens[u]
               c == calculate_refund_amount(subs[u], ps, n, interval_known)
               iv == IF interval_known /\ ps.interval = "year"
                     THEN "yearly" ELSE "monthly"
           IN  /\ n = 0 => c.usage_charge = 0 /\ c.refund_amount = ps.amount_paid
               /\ n > 0 =>
                    \/ /\ c.usage_charge = MINIMUM_USAGE_CHARGE
                       /\ AtLeastPrice(MINIMUM_USAGE_CHARGE,
                                       subs[u].plan_type, iv, n)
                    \/ /\ c.usage_charge > MINIMUM_USAGE_CHARGE
                       /\ CoversPrice(c.usage_charge, subs[u].plan_type, iv, n)
               /\ c.refund_amount =
                    (IF ps.amount_paid - c.usage_charge > 0
                     THEN ps.amount_paid - c.usage_charge ELSE 0)
               /\ c.refund_amount >= 0
               /\ c.refund_amount <= ps.amount_paid)
    /\ [][\A q \in Requests :
            (req[q].pc \in {"idle", "done"}
                /\ req'[q].pc \in {"refund", "cancel"})
            => \E interval_known \in BOOLEAN :
                req'[q].refund =
                    calculate_refund_amount(
                        subs[req'[q].user], provider.subscriptions[req'[q].sub],
                        gens[req'[q].user], interval_known).refund_amount]_vars

\* a request on the monthly pro plan with 4 generations (12.64 of usage) goes
\* on with a refund of 66.36, and one whose usage charge is above the amount
\* paid goes on with no refund
C13_Witness ==
    \E q \in Requests :
        /\ req[q].pc \in {"refund", "cancel"}
        /\ \/ gens[req[q].user] = 4 /\ req[q].refund = 6636
           \/ gens[req[q].user] = 30 /\ req[q].refund = 0 /\ req[q].pc = "cancel"

\* C14 (cooling-off window): is_within_cooling_off_period is true exactly
\* when the time elapsed since created_at, measured finer than in whole days,
\* is at most 14 days, and a cancellation request is let through to the
\* refund only then.
C14_WindowIsFourteenDays ==
    /\ \A u \in DOMAIN subs :
            is_within_cooling_off_period(subs[u], now)
                <=> (now - subs[u].created_at
                        <= EU_COOLING_OFF_DAYS * TicksPerDay)
    /\ \A q \in Requests :
            (req[q].pc \in {"refund", "cancel"} /\ req[q].user \in DOMAIN subs)
                => (now - subs[req[q].user].created_at
                        <= EU_COOLING_OFF_DAYS * TicksPerDay)

\* C15 (the window runs from the start of the paid subscription): a user
\* whose checkout-completed event was applied at time T, and who is on the
\* paid plan since, is within the cooling-off period at every time up to
\* T + 14 days, however old the Subscription record is.
C15_WindowFromPaidStart ==
    \A u \in DOMAIN subs :
        (/\ hist.paid_at[u] # Never
         /\ subs[u].plan_type \in PaidPlans
         /\ now - hist.paid_at[u] <= EU_COOLING_OFF_DAYS * TicksPerDay)
            => is_within_cooling_off_period(subs[u], now)

\* C18 (the grace period is a bounded window): for a Subscription that a
\* payment-failed event put into past_due at time F, with no payment
\* succeeded since and still past_due, check_generation_quota is true only
\* while at most 3 days have elapsed since F and usage is below the limit.
C18_GraceIsBounded ==
    \A u \in DOMAIN subs :
        (/\ hist.failed_at[u] # Never
         /\ subs[u].status = "past_due"
         /\ check_generation_quota(subs, u, now))
            => /\ now - hist.failed_at[u] <= GRACE_PERIOD_DAYS * TicksPerDay
               /\ subs[u].generations_used < subs[u].generations_limit

\* the tier a price reference maps to in handle_subscription_updated
TierOf(price) ==
    IF price = STRIPE_PRICE_STANDARD THEN "standard"
    ELSE IF price = STRIPE_PRICE_PRO THEN "pro"
    ELSE Null

\* the rows handle_subscription_updated picks for a payload
Target(s, d) ==
    IF BySubscription(s, d.obj) # {} THEN BySubscription(s, d.obj)
    ELSE IF d.customer = Null THEN {}
    ELSE ByCustomer(s, d.customer)

\* C16 (cap on tier change): for every Subscription the program reaches and
\* every created/updated payload whose price maps to a tier other than the
\* stored one, handle_subscription_updated leaves the row on the new tier
\* with that tier's generations and websites limits and with
\* generations_used = min(previous generations_used, new limit); pro with
\* 15 of 25 used moved to standard ends at 10 of 10, and a move to a larger
\* tier leaves generations_used as it was.
C16_CapOnTierChange ==
    \A d \in SubscriptionPayloads :
        (d.obj # Null /\ TierOf(d.price) # Null) =>
            \A u \in Target(subs, d) :
                subs[u].plan_type # TierOf(d.price) =>
                    \A r \in handle_subscription_updated(subs, d, now) :
                        LET old == subs[u]
                            new == r.subs[u]
                            lim == PLAN_FEATURES[TierOf(d.price)]
                        IN  /\ r.outcome = "applied"
                            /\ new.plan_type = TierOf(d.price)
                            /\ new.generations_limit = lim.generations_limit
                            /\ new.websites_limit = lim.max_websites
                            /\ new.generations_used =
                                (IF old.generations_used < lim.generations_limit
                                 THEN old.generations_used
                                 ELSE lim.generations_limit)
                            /\ (old.generations_limit <= lim.generations_limit
                                 /\ old.generations_used <= old.generations_limit)
                                    => new.generations_used = old.generations_used
                            /\ (old.plan_type = "pro"
                                 /\ old.generations_used = 15
                                 /\ TierOf(d.price) = "standard")
                                    => (new.generations_used = 10
                                        /\ new.generations_limit = 10)

\* the pro row with 15 used, after an update event that reports the standard
\* price and the status past_due
C16_Witness ==
    /\ "u1" \in DOMAIN subs
    /\ subs["u1"].plan_type = "standard"
    /\ subs["u1"].status = "past_due"
    /\ subs["u1"].generations_used = 10
    /\ subs["u1"].generations_limit = 10
    /\ subs["u1"].websites_limit = 5

\* C17 (quota cap on every downgrade path): every step that lowers a
\* Subscription's generations_limit leaves it with
\* generations_used <= generations_limit.
C17_CapOnEveryDowngrade ==
    [][\A u \in (DOMAIN subs) \cap (DOMAIN subs') :
        subs'[u].generations_limit < subs[u].generations_limit
            => subs'[u].generations_used <= subs'[u].generations_limit]_vars

\* C19 (charge disputed): for every Subscription the program reaches, in
\* any status and on any plan, handle_charge_disputed for its customer
\* leaves it on the free plan, canceled, with the free tier's generations
\* and websites limits, and check_generation_quota is false right after;
\* a Subscription that was disputed and is still canceled has no quota.
C19_DisputeRevokesAccess ==
    /\ \A u \in DOMAIN subs :
        subs[u].stripe_customer_id # Null =>
            \A r \in handle_charge_disputed(
                        subs, [NoData EXCEPT
                                !.customer = subs[u].stripe_customer_id], now) :
                /\ r.outcome = "applied"
                /\ r.subs[u].plan_type = "free"
                /\ r.subs[u].status = "canceled"
                /\ r.subs[u].generations_limit =
                        PLAN_FEATURES["free"].generations_limit
                /\ r.subs[u].websites_limit = PLAN_FEATURES["free"].max_websites
                /\ ~check_generation_quota(r.subs, u, now)
    /\ \A u \in DOMAIN subs :
        (hist.disputed[u] /\ subs[u].status = "canceled")
            => ~check_generation_quota(subs, u, now)

\* the dispute handler ran on u1's row: it is canceled and on the free
\* tier, and a generation is refused
C19_Witness ==
    /\ "u1" \in DOMAIN subs
    /\ hist.disputed["u1"]
    /\ subs["u1"].plan_type = "free"
    /\ subs["u1"].status = "canceled"
    /\ subs["u1"].generations_limit = 1
    /\ subs["u1"].websites_limit = 1
    /\ ~check_generation_quota(subs, "u1", now)

\* the statuses of a Subscription that is not canceled
LiveStatuses == {"active", "trialing", "past_due", "incomplete"}

\* C20 (charge refunded): for every Subscription the program reaches in a
\* status active, trialing, past_due or incomplete, handle_charge_refunded
\* for its customer leaves it on the free plan, canceled, with the free
\* tier's limits when the charge is marked fully refunded, and leaves plan,
\* status and limits unchanged when it is not.
C20_FullRefundDowngrades ==
    \A u \in DOMAIN subs, full \in BOOLEAN :
        (subs[u].stripe_customer_id # Null /\ subs[u].status \in LiveStatuses)
            => \A r \in handle_charge_refunded(
                        subs, [NoData EXCEPT
                                !.customer = subs[u].stripe_customer_id,
                                !.refunded = full], now) :
                IF full
                THEN /\ r.subs[u].plan_type = "free"
                     /\ r.subs[u].status = "canceled"
                     /\ r.subs[u].generations_limit =
                            PLAN_FEATURES["free"].generations_limit
                     /\ r.subs[u].websites_limit =
                            PLAN_FEATURES["free"].max_websites
                ELSE /\ r.subs[u].plan_type = subs[u].plan_type
                     /\ r.subs[u].status = subs[u].status
                     /\ r.subs[u].generations_limit = subs[u].generations_limit
                     /\ r.subs[u].websites_limit = subs[u].websites_limit

\* the statuses a Subscription may have
SubscriptionStatuses ==
    {"active", "trialing", "past_due", "canceled", "incomplete"}

\* C21 (status domain): every Subscription's status is one of active,
\* trialing, past_due, canceled, incomplete.
C21_StatusDomain ==
    \A u \in DOMAIN subs : subs[u].status \in SubscriptionStatuses

\* a request of user u that the endpoint must refuse
Ineligible(u, acknowledge_usage_charge) ==
    \/ u \notin DOMAIN subs
    \/ subs[u].plan_type = "free"
    \/ ~is_within_cooling_off_period(subs[u], now)
    \/ ~acknowledge_usage_charge

price_id_map ==
    {<<STRIPE_PRICE_STARTER_MONTHLY, "starter">>,
     <<STRIPE_PRICE_STARTER_YEARLY, "starter">>,
     <<STRIPE_PRICE_STANDARD_MONTHLY, "standard">>,
     <<STRIPE_PRICE_STANDARD_YEARLY, "standard">>,
     <<STRIPE_PRICE_PRO_MONTHLY, "pro">>,
     <<STRIPE_PRICE_PRO_YEARLY, "pro">>}

\* C23 (price resolution in the plan-update handler): for every price the
\* checkout sells and every Subscription the program reaches, a created or
\* updated event whose first item carries that price leaves the row on the
\* price's plan with that plan's generations and websites limits.
C23_PriceResolution ==
    \A d \in SubscriptionPayloads, pp \in price_id_map :
        (d.obj # Null /\ d.price = pp[1]) =>
            \A u \in Target(subs, d) :
                \A r \in handle_subscription_updated(subs, d, now) :
                    r.outcome = "applied" =>
                        /\ r.subs[u].plan_type = pp[2]
                        /\ r.subs[u].generations_limit =
                                PLAN_FEATURES[pp[2]].generations_limit
                        /\ r.subs[u].websites_limit =
                                PLAN_FEATURES[pp[2]].max_websites

\* the fields of the rows that a handler settles
Settled(s) ==
    [u \in DOMAIN s |->
        [plan_type |-> s[u].plan_type,
         status |-> s[u].status,
         stripe_customer_id |-> s[u].stripe_customer_id,
         stripe_subscription_id |-> s[u].stripe_subscription_id,
         generations_limit |-> s[u].generations_limit,
         websites_limit |-> s[u].websites_limit,
         generations_used |-> s[u].generations_used]]

\* C25 (handler idempotence): for every Subscription table the program
\* reaches and every event, whenever the event's handler has applied it,
\* running the handler on the same event again leaves plan, status,
\* customer and subscription refs, limits and usage of every row as they
\* were after the first application.
C25_HandlerIdempotence ==
    \A ev \in LedgerEvents :
        \A r1 \in Dispatch(ev[1], subs, ev[2], now, provider) :
            r1.outcome = "applied" =>
                \A r2 \in Dispatch(ev[1], r1.subs, ev[2], now, provider) :
                    Settled(r2.subs) = Settled(r1.subs)

\* the payment-failed event was applied to u1's row, which is past due, and
\* the handler applies it again to the same effect
C25_Witness ==
    /\ "u1" \in DOMAIN subs
    /\ hist.failed_at["u1"] # Never
    /\ subs["u1"].status = "past_due"
    /\ \A r \in handle_payment_failed(
                    subs, [NoData EXCEPT !.customer = "cus_1",
                                         !.subscription = "sub_1"], now) :
            r.outcome = "applied" /\ Settled(r.subs) = Settled(subs)

\* C27 (at most one refund per paid charge): across the cancel requests for
\* one Subscription, concurrent or retried, the provider creates at most one
\* refund, and the total refunded is no more than the amount that any request
\* which issued a refund calculated as total_paid - usage_charge.
C27_AtMostOneRefund ==
    /\ Len(provider.refunds) <= 1
    /\ \A q \in Requests :
            req[q].issued > 0 => TotalRefunded(provider.refunds) <= req[q].refund

\* C28 (quota enforcement in the generation flow): with several generations
\* in flight and any interleaving of starts and completions within a billing
\* period, generations_used never exceeds generations_limit.
C28_QuotaHoldsInFlight ==
    \A u \in DOMAIN subs :
        subs[u].generations_used <= subs[u].generations_limit

\* C29 (the count the refund calculation charges for): the number of
\* completed Generation rows since created_at equals the number of
\* generations the user completed since then, and the usage charge computed
\* from the rows is not below the one for the generations completed.
C29_CountSurvivesDeletion ==
    \A u \in DOMAIN subs :
        LET completed == gens[u] + hist.deleted[u]
        IN  /\ gens[u] = completed
            /\ \A billing_interval \in {"monthly", "yearly"} :
                    calculate_usage_charge(subs[u].plan_type, billing_interval,
                                           gens[u])
                        >= calculate_usage_charge(subs[u].plan_type,
                                                  billing_interval, completed)

\* C30 (no generation without a live status): for every Subscription row,
\* now and at any time in the next days, check_generation_quota is false
\* when the status is neither active nor trialing nor past_due within the
\* grace period, whatever quota remains; start_generation then admits no
\* generation on any website.
C30_NoQuotaUnlessLive ==
    \A u \in DOMAIN subs :
        \A t \in now .. (now + (GRACE_PERIOD_DAYS + 1) * TicksPerDay) :
            (/\ subs[u].status \notin {"active", "trialing"}
             /\ ~(/\ subs[u].status = "past_due"
                  /\ Days(t - subs[u].updated_at) <= GRACE_PERIOD_DAYS))
                => /\ ~check_generation_quota(subs, u, t)
                   /\ \A w \in Websites :
                        ~start_generation_admits(subs, inflight, u, w, t)

\* u1's row was downgraded to the free plan with status canceled and no
\* subscription ref; one free generation remains and the check refuses it
C30_Witness ==
    /\ "u1" \in DOMAIN subs
    /\ subs["u1"].status = "canceled"
    /\ subs["u1"].plan_type = "free"
    /\ subs["u1"].stripe_subscription_id = Null
    /\ subs["u1"].generations_used < subs["u1"].generations_limit
    /\ ~hist.disputed["u1"]
    /\ hist.paid_at["u1"] # Never
    /\ ~check_generation_quota(subs, "u1", now)

\* C8 (canceled implies free and unlinked): every Subscription whose status
\* is canceled is on the free tier and has no external subscription ref.
C8_CanceledIsFreeAndUnlinked ==
    \A u \in DOMAIN subs :
        subs[u].status = "canceled"
            => /\ subs[u].plan_type = "free"
               /\ subs[u].stripe_subscription_id = Null

====
